---- MODULE Spec2Model ----
(***************************************************************************)
(* Link Hub (src/linkhub.py): a Flask application that keeps a list of     *)
(* links in one JSON file.  Every request handler reloads the file         *)
(* (load_links), works on a private copy and, for /admin/add and           *)
(* /admin/delete, writes the whole file back (save_links).  The server     *)
(* handles requests concurrently and the handlers take no lock, so the     *)
(* model splits each handler at its accesses to the shared state: the      *)
(* file DATA_FILE, the module-level list DEFAULT_LINKS and the clock.      *)
(*                                                                         *)
(* Text is modelled as a sequence of one-character strings, so that        *)
(* str.strip, urlparse(...).scheme, int(...) and the length of the         *)
(* serialized document are computed as the code computes them.             *)
(***************************************************************************)
EXTENDS Naturals, Integers, Sequences, FiniteSets, TLC

VARIABLES
    file,           \* DATA_FILE on disk
    DEFAULT_LINKS,  \* the module-level list, stamped in place by load_links
    now,            \* datetime.utcnow(), in ticks
    pc,             \* pc[p]: where worker p stands in its handler
    req,            \* req[p]: the request worker p is serving (its raw fields)
    links,          \* links[p]: the handler's local variable `links`
    idx,            \* idx[p]: position of the loop of load_links (line 34)
    outcome,        \* outcome[p]: HTTP status of p's last finished request
    result,         \* result[p]: the body of that response (a list of links)
    loaded,         \* loaded[p]: what load_links returned to the handler
    budget,         \* requests the server will still be sent
    clean,          \* history: no other worker wrote the file since p read it
    adds,           \* history: the adds that completed, in order
    dels            \* history: the deletes that completed, in order

vars == <<file, DEFAULT_LINKS, now, pc, req, links, idx, outcome, result,
          loaded, budget, clean, adds, dels>>

----------------------------------------------------------------------------
(* Bounds of the model *)

NumWorkers == 2
MaxRequests == 2
MaxSeqRequests == 3
MaxStoredRequests == 1
MaxClock == 2
GarbageLen == 3

Workers == 1..NumWorkers

----------------------------------------------------------------------------
(* Text *)

Lower == {"a","b","c","d","e","f","g","h","i","j","k","l","m",
          "n","o","p","q","r","s","t","u","v","w","x","y","z"}
Upper == {"A","B","C","D","E","F","G","H","I","J","K","L","M",
          "N","O","P","Q","R","S","T","U","V","W","X","Y","Z"}
DigitChars == <<"0","1","2","3","4","5","6","7","8","9">>
Digits == {DigitChars[k] : k \in 1..10}
Whitespace == {" ", "\t", "\n"}

\* str.strip(): drop the leading and the trailing whitespace
RECURSIVE LStrip(_)
LStrip(s) == IF s # <<>> /\ Head(s) \in Whitespace THEN LStrip(Tail(s)) ELSE s

RECURSIVE RStrip(_)
RStrip(s) ==
    IF s # <<>> /\ s[Len(s)] \in Whitespace
    THEN RStrip(SubSeq(s, 1, Len(s) - 1)) ELSE s

strip(s) == RStrip(LStrip(s))

\* str.find(c), 1-based; 0 when c does not occur
Find(s, c) ==
    IF \E k \in 1..Len(s) : s[k] = c
    THEN CHOOSE k \in 1..Len(s) : s[k] = c /\ \A j \in 1..(k - 1) : s[j] # c
    ELSE 0

\* urllib.parse: the characters a scheme may consist of
SchemeChars == Lower \cup Upper \cup Digits \cup {"+", "-", "."}

\* bool(urlparse(url).scheme): a letter first, scheme characters up to the
\* first colon, and that colon not in first place
HasScheme(url) ==
    LET i == Find(url, ":") IN
    /\ i > 1
    /\ url[1] \in Lower \cup Upper
    /\ \A k \in 1..(i - 1) : url[k] \in SchemeChars

HttpsPrefix == <<"h","t","t","p","s",":","/","/">>

\* NormalizeUrl putting https:// before every url
NormalizeUrlAlways(url) == HttpsPrefix \o url

\* NormalizeUrl leaving every url as it is
NormalizeUrlNever(url) == url

\* lines 264-265: minimal URL normalization
NormalizeUrl(url) == IF ~HasScheme(url) THEN HttpsPrefix \o url ELSE url

DigitValue(c) == (CHOOSE k \in 1..10 : DigitChars[k] = c) - 1

RECURSIVE DigitsValue(_)
DigitsValue(s) ==
    IF s = <<>> THEN 0
    ELSE 10 * DigitsValue(SubSeq(s, 1, Len(s) - 1)) + DigitValue(s[Len(s)])

\* the request has no such field: request.form.get('id') is None
NoneField == <<"None">>

\* int(x) succeeds: x is text that, stripped, is a run of decimal digits
\* (the inputs of the model carry no sign and no underscore)
IsInt(s) ==
    /\ s # NoneField
    /\ strip(s) # <<>>
    /\ \A k \in 1..Len(strip(s)) : strip(s)[k] \in Digits

ParseInt(s) == DigitsValue(strip(s))

\* str(n) for 0 <= n < 100
IntText(n) ==
    IF n < 10 THEN <<DigitChars[n + 1]>>
    ELSE <<DigitChars[(n \div 10) + 1], DigitChars[(n % 10) + 1]>>

\* datetime.utcnow().isoformat() + 'Z' at tick t
IsoZ(t) == IntText(t) \o <<"Z">>

UpperChars == <<"A","B","C","D","E","F","G","H","I","J","K","L","M",
                "N","O","P","Q","R","S","T","U","V","W","X","Y","Z">>
LowerChars == <<"a","b","c","d","e","f","g","h","i","j","k","l","m",
                "n","o","p","q","r","s","t","u","v","w","x","y","z">>

\* str.lower() (on ASCII text: one character for one character)
lower(s) ==
    [k \in 1..Len(s) |->
        IF s[k] \in Upper
        THEN LowerChars[CHOOSE j \in 1..26 : UpperChars[j] = s[k]]
        ELSE s[k]]

\* `a in b` on two texts: a is a substring of b
Contains(a, b) ==
    \E i \in 0..(Len(b) - Len(a)) : SubSeq(b, i + 1, i + Len(a)) = a

----------------------------------------------------------------------------
(* Links and the document *)

Link(id, title, url, notes, category, created) ==
    [id |-> id, title |-> title, url |-> url, notes |-> notes,
     category |-> category, created |-> created]

\* lines 25-29, as the module is imported: created is ""
InitialDefaults == <<
    Link(1, <<"G","o","o","g","l","e">>,
         <<"h","t","t","p","s",":","/","/","w","w","w",".","g","o","o","g","l","e",".","c","o","m">>,
         <<"S","e","a","r","c","h">>, <<"S","e","a","r","c","h">>, <<>>),
    Link(2, <<"G","i","t","H","u","b">>,
         <<"h","t","t","p","s",":","/","/","g","i","t","h","u","b",".","c","o","m">>,
         <<"C","o","d","e"," ","h","o","s","t","i","n","g">>, <<"D","e","v">>, <<>>),
    Link(3, <<"Y","o","u","T","u","b","e">>,
         <<"h","t","t","p","s",":","/","/","w","w","w",".","y","o","u","t","u","b","e",".","c","o","m">>,
         <<"V","i","d","e","o","s">>, <<"M","e","d","i","a">>, <<>>) >>

Ids(ls) == {ls[k].id : k \in 1..Len(ls)}

SetMax(S) == CHOOSE m \in S : \A x \in S : x <= m

\* next_id counting the links instead of taking the largest id
next_id_count(ls) == Len(ls) + 1

\* next_id taking the id of the last link instead of the largest id
next_id_last(ls) == IF ls = <<>> THEN 1 ELSE ls[Len(ls)].id + 1

\* lines 49-52
next_id(ls) == IF ls = <<>> THEN 1 ELSE SetMax(Ids(ls)) + 1

RECURSIVE SumLen(_)
SumLen(ls) ==
    IF ls = <<>> THEN 0
    ELSE LET l == Head(ls) IN
         107 + Len(IntText(l.id)) + Len(l.title) + Len(l.url) + Len(l.notes)
             + Len(l.category) + Len(l.created) + SumLen(Tail(ls))

\* the length of json.dump(ls, f, ensure_ascii=False, indent=2)
JsonLen(ls) == IF ls = <<>> THEN 2 ELSE 2 + Len(ls) + SumLen(ls)

\* The file: absent, or some text.  A text that json.load accepts is held as
\* the list it parses to; any other text is held by its length alone.
Absent == [exists |-> FALSE, ok |-> FALSE, links |-> <<>>, size |-> 0]
Garbage(n) == [exists |-> TRUE, ok |-> FALSE, links |-> <<>>, size |-> n]
Document(ls) == [exists |-> TRUE, ok |-> TRUE, links |-> ls, size |-> JsonLen(ls)]

\* Truncated opening the file without cutting it
Untruncated(f) == IF f.exists THEN f ELSE Garbage(0)

\* line 45, open(DATA_FILE, 'w'): the file is created or cut to length 0
Truncated(f) == Garbage(0)

\* Written leaving a file that already holds text as it is
WrittenKeep(f, ls) == IF f.size = 0 THEN Document(ls) ELSE f

\* lines 45-46, the text reaching the file as it is closed: written from
\* offset 0 over what is there; what lay beyond its end stays
Written(f, ls) ==
    IF JsonLen(ls) >= f.size THEN Document(ls) ELSE Garbage(f.size)

\* ReadLinks falling back to the default links instead of []
ReadLinksOrDefaults(f) == IF f.exists /\ f.ok THEN f.links ELSE InitialDefaults

\* lines 37-41: json.load of the file, [] on any exception
ReadLinks(f) == IF f.exists /\ f.ok THEN f.links ELSE <<>>

----------------------------------------------------------------------------
(* Requests *)

\* line 22, with ADMIN_PASSWORD not set in the environment
ADMIN_PASSWORD == <<"c","h","a","n","g","e","m","e">>

Request(op, pass, title, url, category, notes, id, q) ==
    [op |-> op, pass |-> pass, title |-> title, url |-> url,
     category |-> category, notes |-> notes, id |-> id, q |-> q]

NoRequest == Request("none", <<>>, <<>>, <<>>, <<>>, <<>>, <<>>, <<>>)

\* the `pass` field: the secret, and the secret followed by a blank
Passes == {ADMIN_PASSWORD, ADMIN_PASSWORD \o <<" ">>}

GoodTitle == <<"G","i","t"," ">>
PlainUrl == <<" ","e",".","c">>
Titles == {<<>>, <<" ">>, GoodTitle}
Urls == {<<" ">>, PlainUrl, <<"f","t","p",":","e">>}
\* <<category, notes>>
NoExtras == <<<<>>, <<>>>>
Extras == {NoExtras, <<<<"D","e","v"," ">>, <<" ","n">>>>}

\* the fields of /admin/add: every title with every url, and a category and
\* notes with one pair of them
AddFields ==
    {f \in Titles \X Urls \X Extras :
        f[3] = NoExtras \/ (f[1] = GoodTitle /\ f[2] = PlainUrl)}

\* with the wrong secret: one request with good fields, one with bad ones
AddRequests ==
    {Request("add", pw, f[1], f[2], f[3][1], f[3][2], <<>>, <<>>) :
        pw \in Passes, f \in {g \in AddFields : g[3] # NoExtras \/ g[1] = <<>>}}
    \cup
    {Request("add", ADMIN_PASSWORD, f[1], f[2], f[3][1], f[3][2], <<>>,
             <<>>) :
        f \in AddFields}

\* the `id` field of /admin/delete
DeleteIds == {NoneField, <<"x">>, <<"1">>, <<" ","4">>}

DeleteRequests ==
    {Request("delete", pw, <<>>, <<>>, <<>>, <<>>, i, <<>>) :
        pw \in Passes, i \in {<<"x">>, <<"1">>}}
    \cup
    {Request("delete", ADMIN_PASSWORD, <<>>, <<>>, <<>>, <<>>, i, <<>>) :
        i \in DeleteIds}

\* /r/<int:link_id>
RedirectIds == {<<"1">>, <<"4">>}

RedirectRequests ==
    {Request("redirect", <<>>, <<>>, <<>>, <<>>, <<>>, i, <<>>) :
        i \in RedirectIds}

ApiRequest == Request("api", <<>>, <<>>, <<>>, <<>>, <<>>, <<>>, <<>>)

AdminRequest == Request("admin", <<>>, <<>>, <<>>, <<>>, <<>>, <<>>, <<>>)

\* the parameters q and category of the listing
Queries == {<<>>, <<" ">>, <<"G","I","T"," ">>, <<"h","u","b">>}
Categories == {<<>>, <<" ","d","E","V">>}

IndexRequests ==
    {Request("index", <<>>, <<>>, <<>>, c, <<>>, <<>>, q) :
        q \in Queries, c \in Categories}

\* Authorized comparing the stripped field
AuthorizedStripped(pw) == strip(pw) = ADMIN_PASSWORD

\* lines 254-256 and 275-277
Authorized(pw) == pw = ADMIN_PASSWORD

\* ValidAdd with `title or url`
ValidAddEither(title, url) == title # <<>> \/ url # <<>>

\* line 261, on the stripped fields: `title and url`
ValidAdd(title, url) == title # <<>> /\ url # <<>>

\* lines 254-262: the status admin_add aborts with, 0 when it goes on
AddCheck(r) ==
    IF ~Authorized(r.pass) THEN 403
    ELSE IF ~ValidAdd(strip(r.title), strip(r.url)) THEN 400
    ELSE 0

\* lines 275-281: the status admin_delete aborts with, 0 when it goes on
DeleteCheck(r) ==
    IF ~Authorized(r.pass) THEN 403
    ELSE IF ~IsInt(r.id) THEN 400
    ELSE 0

\* line 267: the new link, made from the collection just loaded, at tick t
NewLink(r, ls, t) ==
    Link(next_id(ls), strip(r.title), NormalizeUrl(strip(r.url)),
         strip(r.notes), strip(r.category), IsoZ(t))

\* WithoutId keeping only the links whose id is larger than lid
RECURSIVE WithoutIdAbove(_, _)
WithoutIdAbove(ls, lid) ==
    IF ls = <<>> THEN <<>>
    ELSE IF Head(ls).id > lid THEN <<Head(ls)>> \o WithoutIdAbove(Tail(ls), lid)
    ELSE WithoutIdAbove(Tail(ls), lid)

\* WithoutId dropping the link at position lid
WithoutIndex(ls, lid) ==
    IF lid \in 1..Len(ls)
    THEN SubSeq(ls, 1, lid - 1) \o SubSeq(ls, lid + 1, Len(ls))
    ELSE ls

\* line 283: the links whose id is not lid
RECURSIVE WithoutId(_, _)
WithoutId(ls, lid) ==
    IF ls = <<>> THEN <<>>
    ELSE IF Head(ls).id # lid THEN <<Head(ls)>> \o WithoutId(Tail(ls), lid)
    ELSE WithoutId(Tail(ls), lid)

\* FilterCategory comparing the categories as they are
RECURSIVE FilterCategoryExact(_, _)
FilterCategoryExact(ls, cat) ==
    IF ls = <<>> THEN <<>>
    ELSE IF Head(ls).category = cat
         THEN <<Head(ls)>> \o FilterCategoryExact(Tail(ls), cat)
         ELSE FilterCategoryExact(Tail(ls), cat)

\* lines 225-227: the links of the category, compared in lower case
RECURSIVE FilterCategory(_, _)
FilterCategory(ls, cat) ==
    IF ls = <<>> THEN <<>>
    ELSE IF lower(Head(ls).category) = lower(cat)
         THEN <<Head(ls)>> \o FilterCategory(Tail(ls), cat)
         ELSE FilterCategory(Tail(ls), cat)

\* lines 228-230: the links whose title, notes or url holds the query, all in
\* lower case
RECURSIVE FilterText(_, _)
FilterText(ls, q) ==
    IF ls = <<>> THEN <<>>
    ELSE IF \/ Contains(lower(q), lower(Head(ls).title))
            \/ Contains(lower(q), lower(Head(ls).notes))
            \/ Contains(lower(q), lower(Head(ls).url))
         THEN <<Head(ls)>> \o FilterText(Tail(ls), q)
         ELSE FilterText(Tail(ls), q)

\* Filtered with the text filter applied to `links`, not to `filtered`
FilteredEither(ls, q, cat) ==
    LET byCat == IF cat # <<>> THEN FilterCategory(ls, cat) ELSE ls
    IN  IF q # <<>> THEN FilterText(ls, q) ELSE byCat

\* lines 225-230: `filtered`, for the stripped parameters q and cat
Filtered(ls, q, cat) ==
    LET byCat == IF cat # <<>> THEN FilterCategory(ls, cat) ELSE ls
    IN  IF q # <<>> THEN FilterText(byCat, q) ELSE byCat

\* line 239: the first link with the id, as a list of at most one link
Match(ls, lid) ==
    IF \E k \in 1..Len(ls) : ls[k].id = lid
    THEN <<ls[CHOOSE k \in 1..Len(ls) :
                ls[k].id = lid /\ \A j \in 1..(k - 1) : ls[j].id # lid]>>
    ELSE <<>>

\* the values utcnow() may return: the clock does not run backwards
Ticks == {t \in now..(now + 1) : t <= MaxClock}

----------------------------------------------------------------------------
(* The state after the module is imported *)

Init ==
    /\ file \in {Absent, Garbage(GarbageLen)}
    /\ DEFAULT_LINKS = InitialDefaults
    /\ now = 1
    /\ pc = [p \in Workers |-> "idle"]
    /\ req = [p \in Workers |-> NoRequest]
    /\ links = [p \in Workers |-> <<>>]
    /\ loaded = [p \in Workers |-> <<>>]
    /\ idx = [p \in Workers |-> 0]
    /\ outcome = [p \in Workers |-> 0]
    /\ result = [p \in Workers |-> <<>>]
    /\ budget = MaxRequests
    /\ clean = [p \in Workers |-> FALSE]
    /\ adds = <<>>
    /\ dels = <<>>

\* a request arrives at worker p
Receive(p, r) ==
    /\ pc[p] = "idle"
    /\ budget > 0
    /\ budget' = budget - 1
    /\ req' = [req EXCEPT ![p] = r]
    /\ result' = [result EXCEPT ![p] = <<>>]
    /\ UNCHANGED <<file, DEFAULT_LINKS, now, links, loaded, idx, clean, adds,
                   dels>>

\* the response leaves worker p, and with it the handler's locals
Respond(p, status, body) ==
    /\ pc' = [pc EXCEPT ![p] = "idle"]
    /\ outcome' = [outcome EXCEPT ![p] = status]
    /\ result' = [result EXCEPT ![p] = body]
    /\ links' = [links EXCEPT ![p] = <<>>]
    /\ loaded' = [loaded EXCEPT ![p] = <<>>]
    /\ idx' = [idx EXCEPT ![p] = 0]

\* worker p changes the file: every other worker's copy is stale
Stale(p, leaving) ==
    [w \in Workers |-> IF w = p /\ ~leaving THEN clean[w] ELSE FALSE]

\* worker p changes the file: it is no longer as the adds so far left it
Overwritten == [k \in 1..Len(adds) |-> [adds[k] EXCEPT !.intact = FALSE]]

\* lines 253-265, admin_add up to its call of load_links
admin_add(p) ==
    \E r \in AddRequests :
        /\ Receive(p, r)
        /\ outcome' = [outcome EXCEPT ![p] = AddCheck(r)]
        /\ pc' = [pc EXCEPT ![p] = IF AddCheck(r) = 0 THEN "exists" ELSE "idle"]

\* lines 274-281, admin_delete up to its call of load_links
admin_delete(p) ==
    \E r \in DeleteRequests :
        /\ Receive(p, r)
        /\ outcome' = [outcome EXCEPT ![p] = DeleteCheck(r)]
        /\ pc' = [pc EXCEPT ![p] = IF DeleteCheck(r) = 0 THEN "exists" ELSE "idle"]

\* lines 236-238, redirect_link up to its call of load_links
redirect_link(p) ==
    \E r \in RedirectRequests :
        /\ Receive(p, r)
        /\ outcome' = [outcome EXCEPT ![p] = 0]
        /\ pc' = [pc EXCEPT ![p] = "exists"]

\* lines 288-290, api_links up to its call of load_links
api_links(p) ==
    /\ Receive(p, ApiRequest)
    /\ outcome' = [outcome EXCEPT ![p] = 0]
    /\ pc' = [pc EXCEPT ![p] = "exists"]

\* lines 222-225, index up to its call of load_links
index(p) ==
    \E r \in IndexRequests :
        /\ Receive(p, r)
        /\ outcome' = [outcome EXCEPT ![p] = 0]
        /\ pc' = [pc EXCEPT ![p] = "exists"]

\* lines 247-248, admin_index up to its call of load_links
admin_index(p) ==
    /\ Receive(p, AdminRequest)
    /\ outcome' = [outcome EXCEPT ![p] = 0]
    /\ pc' = [pc EXCEPT ![p] = "exists"]

----------------------------------------------------------------------------
(* load_links and save_links, one step for each access to the shared state *)

\* line 33: os.path.exists(DATA_FILE)
LoadExists(p) ==
    /\ pc[p] = "exists"
    /\ pc' = [pc EXCEPT ![p] = IF file.exists THEN "read" ELSE "stamp"]
    /\ idx' = [idx EXCEPT ![p] = IF file.exists THEN 0 ELSE 1]
    /\ UNCHANGED <<file, DEFAULT_LINKS, now, req, links, outcome, result,
                   loaded, budget, clean, adds, dels>>

\* lines 34-35: one turn of the loop that stamps the shared DEFAULT_LINKS
LoadStamp(p) ==
    /\ pc[p] = "stamp"
    /\ \E t \in Ticks :
        /\ now' = t
        /\ DEFAULT_LINKS' =
              [DEFAULT_LINKS EXCEPT ![idx[p]].created = IsoZ(t)]
    /\ idx' = [idx EXCEPT ![p] = idx[p] + 1]
    /\ pc' = [pc EXCEPT ![p] =
                 IF idx[p] = Len(DEFAULT_LINKS) THEN "seed_open" ELSE "stamp"]
    /\ UNCHANGED <<file, req, links, outcome, result, loaded, budget, clean,
                   adds, dels>>

\* Saving with the handlers saving the list they loaded
SavingLoaded(p) ==
    IF pc[p] \in {"seed_open", "seed_write"} THEN DEFAULT_LINKS ELSE loaded[p]

\* what save_links was called with: DEFAULT_LINKS (line 36) or the handler's
\* list (lines 269, 284)
Saving(p) ==
    IF pc[p] \in {"seed_open", "seed_write"} THEN DEFAULT_LINKS ELSE links[p]

\* line 45: open(DATA_FILE, 'w') cuts the file to length 0
SaveOpen(p) ==
    /\ pc[p] \in {"seed_open", "save_open"}
    /\ file' = Truncated(file)
    /\ pc' = [pc EXCEPT ![p] =
                 IF pc[p] = "seed_open" THEN "seed_write" ELSE "save_write"]
    /\ clean' = Stale(p, FALSE)
    /\ adds' = Overwritten
    /\ dels' = dels
    /\ UNCHANGED <<DEFAULT_LINKS, now, req, links, idx, outcome, result,
                   loaded, budget>>

\* line 45: open raises (no permission, no room for a new file); nothing
\* catches it, the request ends with status 500
SaveOpenFail(p) ==
    /\ pc[p] \in {"seed_open", "save_open"}
    /\ Respond(p, 500, <<>>)
    /\ clean' = [clean EXCEPT ![p] = FALSE]
    /\ UNCHANGED <<file, DEFAULT_LINKS, now, req, budget, adds, dels>>

\* line 46 and the end of the with block, inside load_links (line 36): the
\* text of DEFAULT_LINKS reaches the file; load_links goes on to read it
SeedWrite(p) ==
    /\ pc[p] = "seed_write"
    /\ file' = Written(file, Saving(p))
    /\ pc' = [pc EXCEPT ![p] = "read"]
    /\ clean' = Stale(p, FALSE)
    /\ adds' = Overwritten
    /\ dels' = dels
    /\ UNCHANGED <<DEFAULT_LINKS, now, req, links, idx, outcome, result,
                   loaded, budget>>

\* line 46 and the end of the with block, called by a handler (lines 269-270,
\* 284-285): the text reaches the file and the handler redirects
SaveWrite(p) ==
    /\ pc[p] = "save_write"
    /\ file' = Written(file, Saving(p))
    /\ Respond(p, 302, <<>>)
    /\ clean' = Stale(p, TRUE)
    /\ adds' = IF req[p].op = "add"
               THEN Append(Overwritten,
                           [req |-> req[p],
                            base |-> loaded[p],
                            link |-> links[p][Len(links[p])],
                            after |-> ReadLinks(file'),
                            intact |-> clean[p]])
               ELSE Overwritten
    /\ dels' = IF req[p].op = "delete"
               THEN Append(dels,
                           [id |-> ParseInt(req[p].id),
                            base |-> loaded[p],
                            after |-> ReadLinks(file'),
                            n |-> Len(adds)])
               ELSE dels
    /\ UNCHANGED <<DEFAULT_LINKS, now, req, budget>>

\* line 46: the write raises (disk full); the file keeps what had reached it,
\* nothing or a part of the text, and the request ends with status 500
SaveWriteFail(p) ==
    /\ pc[p] \in {"seed_write", "save_write"}
    /\ \/ file' = file
       \/ file' = Garbage(IF JsonLen(Saving(p)) - 1 > file.size
                          THEN JsonLen(Saving(p)) - 1 ELSE file.size)
    /\ Respond(p, 500, <<>>)
    /\ clean' = Stale(p, TRUE)
    /\ adds' = Overwritten
    /\ dels' = dels
    /\ UNCHANGED <<DEFAULT_LINKS, now, req, budget>>

----------------------------------------------------------------------------
(* The handlers from the read of load_links (lines 37-41) on, up to their    *)
(* next access to the file                                                  *)

\* lines 266-268: load, make the new link, append it
AddRead(p) ==
    /\ pc[p] = "read" /\ req[p].op = "add"
    /\ \E t \in Ticks :
        /\ now' = t
        /\ links' = [links EXCEPT ![p] =
              Append(ReadLinks(file), NewLink(req[p], ReadLinks(file), t))]
    /\ loaded' = [loaded EXCEPT ![p] = ReadLinks(file)]
    /\ clean' = [clean EXCEPT ![p] = TRUE]
    /\ pc' = [pc EXCEPT ![p] = "save_open"]
    /\ UNCHANGED <<file, DEFAULT_LINKS, req, idx, outcome, result, budget, adds,
                   dels>>

\* lines 282-283: load, drop the links with the id
DeleteRead(p) ==
    /\ pc[p] = "read" /\ req[p].op = "delete"
    /\ links' = [links EXCEPT ![p] =
                    WithoutId(ReadLinks(file), ParseInt(req[p].id))]
    /\ loaded' = [loaded EXCEPT ![p] = ReadLinks(file)]
    /\ clean' = [clean EXCEPT ![p] = TRUE]
    /\ pc' = [pc EXCEPT ![p] = "save_open"]
    /\ UNCHANGED <<file, DEFAULT_LINKS, now, req, idx, outcome, result, budget,
                   adds, dels>>

\* lines 238-243: load, find the link, redirect to it or abort(404); the
\* response is modelled by the link found
RedirectRead(p) ==
    /\ pc[p] = "read" /\ req[p].op = "redirect"
    /\ LET match == Match(ReadLinks(file), ParseInt(req[p].id)) IN
         Respond(p, IF match = <<>> THEN 404 ELSE 302, match)
    /\ UNCHANGED <<file, DEFAULT_LINKS, now, req, budget, clean, adds, dels>>

\* line 290: load, return the list
ApiRead(p) ==
    /\ pc[p] = "read" /\ req[p].op = "api"
    /\ Respond(p, 200, ReadLinks(file))
    /\ UNCHANGED <<file, DEFAULT_LINKS, now, req, budget, clean, adds, dels>>

\* lines 223-233: load, filter by category and by text, render the links
\* kept; the response is modelled by the list `filtered`
IndexRead(p) ==
    /\ pc[p] = "read" /\ req[p].op = "index"
    /\ Respond(p, 200, Filtered(ReadLinks(file), strip(req[p].q),
                                strip(req[p].category)))
    /\ UNCHANGED <<file, DEFAULT_LINKS, now, req, budget, clean, adds, dels>>

\* lines 248-249: load, render the list
AdminRead(p) ==
    /\ pc[p] = "read" /\ req[p].op = "admin"
    /\ Respond(p, 200, ReadLinks(file))
    /\ UNCHANGED <<file, DEFAULT_LINKS, now, req, budget, clean, adds, dels>>

\* what worker p may do next
Step(p) ==
    \/ admin_add(p)
    \/ admin_delete(p)
    \/ redirect_link(p)
    \/ api_links(p)
    \/ LoadExists(p)
    \/ LoadStamp(p)
    \/ SaveOpen(p)
    \/ SaveOpenFail(p)
    \/ SeedWrite(p)
    \/ SaveWrite(p)
    \/ SaveWriteFail(p)
    \/ AddRead(p)
    \/ DeleteRead(p)
    \/ RedirectRead(p)
    \/ ApiRead(p)
    \/ index(p)
    \/ admin_index(p)
    \/ IndexRead(p)
    \/ AdminRead(p)

\* the server handles requests concurrently, one worker each
Next == \E p \in Workers : Step(p)

Spec == Init /\ [][Next]_vars

\* the server handles one request at a time, a single worker, on a fresh store
\* and a disk that does not fail, and more of them
InitSeq ==
    /\ file = Absent
    /\ DEFAULT_LINKS = InitialDefaults
    /\ now = 1
    /\ pc = [p \in Workers |-> "idle"]
    /\ req = [p \in Workers |-> NoRequest]
    /\ links = [p \in Workers |-> <<>>]
    /\ loaded = [p \in Workers |-> <<>>]
    /\ idx = [p \in Workers |-> 0]
    /\ outcome = [p \in Workers |-> 0]
    /\ result = [p \in Workers |-> <<>>]
    /\ budget = MaxSeqRequests
    /\ clean = [p \in Workers |-> FALSE]
    /\ adds = <<>>
    /\ dels = <<>>

NextSeq ==
    \/ admin_add(1)
    \/ admin_delete(1)
    \/ redirect_link(1)
    \/ api_links(1)
    \/ LoadExists(1)
    \/ LoadStamp(1)
    \/ SaveOpen(1)
    \/ SeedWrite(1)
    \/ SaveWrite(1)
    \/ AddRead(1)
    \/ DeleteRead(1)
    \/ RedirectRead(1)
    \/ ApiRead(1)
    \/ index(1)
    \/ admin_index(1)
    \/ IndexRead(1)
    \/ AdminRead(1)

SpecSeq == InitSeq /\ [][NextSeq]_vars

\* Documents a data file may hold when the server starts: links as admin_add
\* stores them, left in any order and with gaps in the ids by earlier runs
\* or by hand
StoredPool == <<
    Link(1, <<"G","i","t","H","u","b">>, <<"h","t","t","p","s",":","/","/","a",".","b">>,
         <<>>, <<"D","e","v">>, <<"1","Z">>),
    Link(3, <<"T","u","b","e">>, <<"h","t","t","p","s",":","/","/","g","i","t",".","x">>,
         <<>>, <<>>, <<"1","Z">>),
    Link(5, <<"D","o","c">>, <<"h","t","t","p","s",":","/","/","c",".","d">>,
         <<"H","u","b">>, <<"D","E","V">>, <<"1","Z">>) >>

\* the lists of links of the pool, each link at most once
StoredLists ==
    {<<>>}
    \cup {<<StoredPool[i]>> : i \in 1..3}
    \cup {<<StoredPool[t[1]], StoredPool[t[2]]>> :
             t \in {u \in (1..3) \X (1..3) : u[1] # u[2]}}
    \cup {<<StoredPool[t[1]], StoredPool[t[2]], StoredPool[t[3]]>> :
             t \in {u \in (1..3) \X (1..3) \X (1..3) :
                       u[1] # u[2] /\ u[1] # u[3] /\ u[2] # u[3]}}

\* the server is sent requests one at a time and finds a data file that
\* holds one of these lists
InitStored ==
    /\ file \in {Document(ls) : ls \in StoredLists}
    /\ DEFAULT_LINKS = InitialDefaults
    /\ now = 1
    /\ pc = [p \in Workers |-> "idle"]
    /\ req = [p \in Workers |-> NoRequest]
    /\ links = [p \in Workers |-> <<>>]
    /\ loaded = [p \in Workers |-> <<>>]
    /\ idx = [p \in Workers |-> 0]
    /\ outcome = [p \in Workers |-> 0]
    /\ result = [p \in Workers |-> <<>>]
    /\ budget = MaxStoredRequests
    /\ clean = [p \in Workers |-> FALSE]
    /\ adds = <<>>
    /\ dels = <<>>

NextStored ==
    \/ index(1)
    \/ admin_add(1)
    \/ admin_delete(1)
    \/ LoadExists(1)
    \/ IndexRead(1)
    \/ AddRead(1)
    \/ DeleteRead(1)
    \/ SaveOpen(1)
    \/ SaveWrite(1)

SpecStored == InitStored /\ [][NextStored]_vars

----------------------------------------------------------------------------
(* Properties *)

In(l, ls) == \E k \in 1..Len(ls) : ls[k] = l

\* what the load_links of worker p returns in this step, for the handlers
\* that keep it (add, delete) or send it as it is (api)
LoadReturn(p) == IF req[p].op = "api" THEN result'[p] ELSE loaded'[p]

\* the load_links of worker p returns in this step
LoadReturns(p) == pc[p] = "read" /\ pc'[p] # "read"

\* C1: in every reachable state, no two links of the durable collection have
\* the same id
C1_UniqueIds ==
    file.ok =>
        \A i, j \in 1..Len(file.links) :
            i # j => file.links[i].id # file.links[j].id

\* an add stored its link after a delete had removed the first seeded link
C1_Witness ==
    /\ file.ok
    /\ Len(file.links) = 3
    /\ 1 \notin Ids(file.links)
    /\ adds # <<>>
    /\ In(adds[Len(adds)].link, file.links)

\* C2: the id of the link of a completed add is strictly greater than the id
\* of the link of every add completed before it
C2_IdsNeverReused ==
    \A i, j \in 1..Len(adds) : i < j => adds[i].link.id < adds[j].link.id

\* C3: when two adds that loaded the same collection both complete, the
\* collection durable after the save of the second does not hold the link of
\* the first
C3_LostUpdate ==
    \A i, j \in 1..Len(adds) :
        (i < j /\ adds[i].base = adds[j].base /\ adds[i].link # adds[j].link)
            => ~In(adds[i].link, adds[j].after)

\* two adds loaded the same collection, the first stored its link, the
\* second completed, and the file now holds the second's list without the
\* link of the first
C3_Witness ==
    \E i, j \in 1..Len(adds) :
        /\ i < j
        /\ adds[i].base = adds[j].base
        /\ In(adds[i].link, adds[i].after)
        /\ file.ok
        /\ file.links = Append(adds[j].base, adds[j].link)
        /\ ~In(adds[i].link, file.links)

\* C4: a load interleaved with a save returns the collection stored before
\* that save or the collection being saved
C4_SaveAtomic ==
    [][\A q \in Workers :
         (LoadReturns(q) /\ req[q].op # "redirect") =>
             \A p \in Workers \ {q} :
                 (pc[p] = "save_write" /\ clean[p]) =>
                     LoadReturn(q) \in {loaded[p], links[p]}]_vars

\* the last add completed undisturbed and the file is as it left it
Added == adds # <<>> /\ adds[Len(adds)].intact

\* worker p looks up the id that add assigned, and answers in this step
Finds(p) ==
    /\ pc[p] = "read" /\ req[p].op = "redirect" /\ pc'[p] = "idle"
    /\ Added
    /\ ParseInt(req[p].id) = adds[Len(adds)].link.id

\* C5 as amended: a findById after an add finds a link with the submitted
\* title, notes and category, each stripped of surrounding whitespace, the
\* stripped url (with https:// before it when it has no scheme), and a
\* non-empty created
C5_AddThenFind ==
    [][\A p \in Workers :
         Finds(p) =>
             LET r == adds[Len(adds)].req IN
             /\ outcome'[p] = 302
             /\ Len(result'[p]) = 1
             /\ result'[p][1].title = strip(r.title)
             /\ result'[p][1].notes = strip(r.notes)
             /\ result'[p][1].category = strip(r.category)
             /\ result'[p][1].url =
                   IF HasScheme(strip(r.url)) THEN strip(r.url)
                   ELSE <<"h","t","t","p","s",":","/","/">> \o strip(r.url)
             /\ result'[p][1].created # <<>>]_vars

\* C5 as stated: the link found has the submitted title, notes, category and
\* url (with https:// before it when it has no scheme)
C5_AddThenFindRaw ==
    [][\A p \in Workers :
         Finds(p) =>
             LET r == adds[Len(adds)].req IN
             /\ outcome'[p] = 302
             /\ Len(result'[p]) = 1
             /\ result'[p][1].title = r.title
             /\ result'[p][1].notes = r.notes
             /\ result'[p][1].category = r.category
             /\ result'[p][1].url =
                   IF HasScheme(r.url) THEN r.url
                   ELSE <<"h","t","t","p","s",":","/","/">> \o r.url
             /\ result'[p][1].created # <<>>]_vars

\* a redirect found the link of the add before it, which had a padded title
\* and a url without a scheme
C5_Witness ==
    \E p \in Workers :
        /\ pc[p] = "idle" /\ req[p].op = "redirect" /\ outcome[p] = 302
        /\ Added
        /\ adds[Len(adds)].req.title = GoodTitle
        /\ adds[Len(adds)].req.url = PlainUrl
        /\ result[p] = <<adds[Len(adds)].link>>

\* worker p is sent an add or delete request in this step
Receives(p) == pc[p] = "idle" /\ budget' = budget - 1

\* C6: an authorized add whose title or url is blank ends with status 400 and
\* leaves the file as it was
C6_AddRejected ==
    [][\A p \in Workers :
         (/\ Receives(p)
          /\ req'[p].op = "add"
          /\ req'[p].pass = ADMIN_PASSWORD
          /\ (strip(req'[p].title) = <<>> \/ strip(req'[p].url) = <<>>))
         => (/\ pc'[p] = "idle"
             /\ outcome'[p] = 400
             /\ file' = file
             /\ adds' = adds)]_vars

\* an add with a title and a blank url was rejected while the file held the
\* seeded links
C6_Witness ==
    \E p \in Workers :
        /\ pc[p] = "idle" /\ req[p].op = "add" /\ outcome[p] = 400
        /\ req[p].title = GoodTitle /\ strip(req[p].url) = <<>>
        /\ file.ok /\ Len(file.links) = 3

\* C7: an add or delete whose secret is not the configured value ends with
\* status 403, whatever its other fields, and leaves the file as it was
C7_Forbidden ==
    [][\A p \in Workers :
         (/\ Receives(p)
          /\ req'[p].op \in {"add", "delete"}
          /\ req'[p].pass # ADMIN_PASSWORD)
         => (/\ pc'[p] = "idle"
             /\ outcome'[p] = 403
             /\ file' = file
             /\ adds' = adds)]_vars

\* a delete with a wrong secret and an id that is no number was refused
\* while the file held the seeded links
C7_Witness ==
    \E p \in Workers :
        /\ pc[p] = "idle" /\ req[p].op = "delete" /\ outcome[p] = 403
        /\ ~IsInt(req[p].id)
        /\ file.ok /\ Len(file.links) = 3

\* C8: a delete of an id that no link of the loaded collection has, not
\* interleaved with another write and whose save does not fail, ends with the
\* redirect and leaves in the file the collection it loaded
C8_DeleteAbsent ==
    [][\A p \in Workers :
         (/\ pc[p] = "save_write" /\ pc'[p] = "idle"
          /\ req[p].op = "delete"
          /\ clean[p]
          /\ ParseInt(req[p].id) \notin Ids(loaded[p])
          /\ outcome'[p] # 500)
         => (/\ outcome'[p] = 302
             /\ file'.ok
             /\ file'.links = loaded[p])]_vars

\* a delete of id 4 completed and the file holds the three seeded links
C8_Witness ==
    \E p \in Workers :
        /\ pc[p] = "idle" /\ req[p].op = "delete" /\ outcome[p] = 302
        /\ ParseInt(req[p].id) = 4
        /\ file.ok /\ Ids(file.links) = {1, 2, 3} /\ Len(file.links) = 3

C10_CorruptLoad ==
    [][\A p \in Workers :
         (LoadReturns(p) /\ file.exists /\ ~file.ok) =>
             /\ file' = file
             /\ outcome'[p] # 500
             /\ req[p].op = "redirect" => outcome'[p] = 404 /\ result'[p] = <<>>
             /\ req[p].op = "api" => outcome'[p] = 200 /\ result'[p] = <<>>
             /\ req[p].op \in {"add", "delete"} =>
                   pc'[p] = "save_open" /\ loaded'[p] = <<>>]_vars

\* the listing answered with the empty list while the file held the text
\* it was found with, which is no JSON
C10_Witness ==
    \E p \in Workers :
        /\ pc[p] = "idle" /\ req[p].op = "api" /\ outcome[p] = 200
        /\ result[p] = <<>>
        /\ file = Garbage(GarbageLen)

\* C11: when the save of an add or delete fails, the request ends with an
\* error and the file holds the document the operation loaded (here: a
\* document with links, and no other worker wrote since the load)
C11_SaveFailure ==
    [][\A p \in Workers :
         (/\ pc[p] \in {"save_open", "save_write"} /\ pc'[p] = "idle"
          /\ outcome'[p] # 302
          /\ clean[p]
          /\ loaded[p] # <<>>)
         => (/\ outcome'[p] = 500
             /\ file' = Document(loaded[p]))]_vars

\* C12: every link of the file has a title that is not blank and a url with
\* a scheme, and the url an add stores is the stripped url it was sent, with
\* https:// before it exactly when that has no scheme
C12_StoredLinksValid ==
    [][/\ file'.ok =>
            \A k \in 1..Len(file'.links) :
                /\ strip(file'.links[k].title) # <<>>
                /\ HasScheme(file'.links[k].url)
       /\ Len(adds') > Len(adds) =>
            LET a == adds'[Len(adds')] IN
            a.link.url = IF HasScheme(strip(a.req.url)) THEN strip(a.req.url)
                         ELSE <<"h","t","t","p","s",":","/","/">>
                                  \o strip(a.req.url)]_vars

\* the file holds the links of two adds, one sent a url without a scheme and
\* one a url with the scheme ftp
C12_Witness ==
    /\ file.ok
    /\ \E i, j \in 1..Len(adds) :
          /\ adds[i].req.url = PlainUrl
          /\ In(adds[i].link, file.links)
          /\ HasScheme(adds[j].req.url)
          /\ In(adds[j].link, file.links)
          /\ adds[j].link.url = adds[j].req.url

\* C13: the id admin_add gives the new link is 1 when the collection it
\* loaded is empty and otherwise the largest id of the collection plus 1,
\* in whatever order the links are (6 for the ids 1, 3, 5)
C13_NextId ==
    [][\A p \in Workers :
         (pc[p] = "read" /\ req[p].op = "add" /\ pc'[p] = "save_open"
          /\ file.ok) =>
             LET S == {file.links[k].id : k \in 1..Len(file.links)}
                 new == links'[p][Len(links'[p])].id
             IN  /\ file.links = <<>> => new = 1
                 /\ file.links # <<>> =>
                       \E m \in S : (\A x \in S : x <= m) /\ new = m + 1
                 /\ S = {1, 3, 5} => new = 6]_vars

\* an add has loaded the links with ids 5, 1, 3 in this order and made the
\* link with id 6
C13_Witness ==
    \E p \in Workers :
        /\ pc[p] = "save_open" /\ req[p].op = "add"
        /\ Len(loaded[p]) = 3
        /\ loaded[p][1].id = 5 /\ loaded[p][2].id = 1 /\ loaded[p][3].id = 3
        /\ links[p][4].id = 6

\* two characters are the same but for their case
SameLetter(x, y) ==
    x = y \/ \E j \in 1..26 : {x, y} = {UpperChars[j], LowerChars[j]}

\* the text a equals the text b, ignoring case
EqualNoCase(a, b) ==
    Len(a) = Len(b) /\ \A k \in 1..Len(a) : SameLetter(a[k], b[k])

\* the text a occurs in the text b, ignoring case
OccursNoCase(a, b) ==
    \E i \in 0..(Len(b) - Len(a)) :
        \A k \in 1..Len(a) : SameLetter(a[k], b[i + k])

\* the listing of worker p answers in this step
Lists(p) == pc[p] = "read" /\ req[p].op = "index" /\ pc'[p] = "idle"

\* C15: with a category and a query both given, the listing returns the
\* links of the collection, in its order, that are of the category and hold
\* the query, and filtering by category and then by text gives the same list
\* as filtering by text and then by category
C15_FiltersCompose ==
    [][\A p \in Workers :
         (Lists(p) /\ file.ok
          /\ strip(req[p].q) # <<>> /\ strip(req[p].category) # <<>>) =>
             LET q == strip(req[p].q)
                 c == strip(req[p].category)
                 Both(l) == /\ EqualNoCase(l.category, c)
                            /\ \/ OccursNoCase(q, l.title)
                               \/ OccursNoCase(q, l.notes)
                               \/ OccursNoCase(q, l.url)
             IN  /\ result'[p] = SelectSeq(file.links, Both)
                 /\ result'[p] = FilterText(FilterCategory(file.links, c), q)
                 /\ result'[p] = FilterCategory(FilterText(file.links, q), c)
       ]_vars

\* a listing with category dEV and query GIT answered with the link with id
\* 1 alone, out of three links of which another holds the query and a third
\* is of the category
C15_Witness ==
    \E p \in Workers :
        /\ pc[p] = "idle" /\ req[p].op = "index" /\ outcome[p] = 200
        /\ strip(req[p].q) = <<"G","I","T">>
        /\ strip(req[p].category) = <<"d","E","V">>
        /\ file.ok /\ Len(file.links) = 3
        /\ \E k \in 1..3 : file.links[k].id = 3
        /\ \E k \in 1..3 : file.links[k].id = 5
        /\ Len(result[p]) = 1 /\ result[p][1].id = 1

\* C16: the listing returns a subsequence of the collection: with a category
\* alone the links whose category equals it ignoring case, with a query alone
\* the links whose title, notes or url holds it ignoring case, with neither
\* every link
C16_Filters ==
    [][\A p \in Workers :
         (Lists(p) /\ file.ok) =>
             LET q == strip(req[p].q)
                 c == strip(req[p].category)
                 OfCategory(l) == EqualNoCase(l.category, c)
                 Holds(l) == \/ OccursNoCase(q, l.title)
                             \/ OccursNoCase(q, l.notes)
                             \/ OccursNoCase(q, l.url)
             IN  /\ (q = <<>> /\ c # <<>>) =>
                        result'[p] = SelectSeq(file.links, OfCategory)
                 /\ (q # <<>> /\ c = <<>>) =>
                        result'[p] = SelectSeq(file.links, Holds)
                 /\ (q = <<>> /\ c = <<>>) => result'[p] = file.links
       ]_vars

\* a listing with the query GIT alone answered with the links with ids 3
\* and 1, in the order of the file, which holds a third link between them
C16_Witness ==
    \E p \in Workers :
        /\ pc[p] = "idle" /\ req[p].op = "index" /\ outcome[p] = 200
        /\ strip(req[p].q) = <<"G","I","T">>
        /\ strip(req[p].category) = <<>>
        /\ file.ok /\ Len(file.links) = 3
        /\ file.links[1].id = 3 /\ file.links[2].id = 5
        /\ file.links[3].id = 1
        /\ result[p] = <<file.links[1], file.links[3]>>

\* C14: an add or delete that no other write interleaves with and whose save
\* does not fail leaves in the file, for an add, the collection it loaded
\* with one link more at its end and, for a delete, the links of the
\* collection it loaded whose id is not the given one, as they were and in
\* their order
C14_Frame ==
    [][\A p \in Workers :
         (/\ pc[p] = "save_write" /\ pc'[p] = "idle"
          /\ clean[p]
          /\ outcome'[p] # 500) =>
             LET Others(l) == l.id # ParseInt(req[p].id) IN
             /\ file'.ok
             /\ req[p].op = "add" =>
                   /\ Len(file'.links) = Len(loaded[p]) + 1
                   /\ SubSeq(file'.links, 1, Len(loaded[p])) = loaded[p]
             /\ req[p].op = "delete" =>
                   file'.links = SelectSeq(loaded[p], Others)]_vars

\* a delete removed the first seeded link and an add then stored its link:
\* the file holds the seeded links 2 and 3 as they were, then the new link
C14_Witness ==
    /\ Added
    /\ file.ok /\ Len(file.links) = 3
    /\ file.links[1].id = 2 /\ file.links[1].title = InitialDefaults[2].title
    /\ file.links[2].id = 3 /\ file.links[2].url = InitialDefaults[3].url
    /\ file.links[3] = adds[Len(adds)].link
    /\ \E p \in Workers : req[p].op = "delete" /\ outcome[p] = 302

\* the links a completed delete found with the id it was given
Deleted(d) == {d.base[k] : k \in {j \in 1..Len(d.base) : d.base[j].id = d.id}}

\* C17: once a delete and an add have both completed, the link that had the
\* id is not in the file as the later of the two saves left it
C17_DeleteSticks ==
    \A n \in 1..Len(dels), i \in 1..Len(adds) :
        \A l \in Deleted(dels[n]) \ {adds[i].link} :
            IF i > dels[n].n
            THEN ~In(l, adds[i].after)
            ELSE ~In(l, dels[n].after)

\* C17 as amended: the link is not in the file as the later of the two
\* saves left it, unless that save is the add's and the add had loaded the
\* link: the file the add's save leaves then holds the link again
C17_DeleteUndone ==
    \A n \in 1..Len(dels), i \in 1..Len(adds) :
        \A l \in Deleted(dels[n]) \ {adds[i].link} :
            IF i > dels[n].n
            THEN In(l, adds[i].after) <=>
                    (In(l, adds[i].base) /\ adds[i].after # <<>>)
            ELSE ~In(l, dels[n].after)

\* a delete removed the first seeded link from the file, an add that had
\* loaded the link saved after it, and the file holds the link again
C17_Witness ==
    \E n \in 1..Len(dels), i \in 1..Len(adds) :
        \E l \in Deleted(dels[n]) :
            /\ i > dels[n].n
            /\ dels[n].after # <<>> /\ ~In(l, dels[n].after)
            /\ In(l, adds[i].base)
            /\ file.ok /\ In(l, file.links)
            /\ In(adds[i].link, file.links)

\* C18: an add or delete that finds a file it cannot parse goes on with the
\* empty collection, and when no other write interleaves and its save does
\* not fail, the file then holds the new link alone, with id 1, after the
\* add and the empty collection after the delete
C18_CorruptOverwritten ==
    [][\A p \in Workers :
         /\ (/\ LoadReturns(p) /\ req[p].op \in {"add", "delete"}
             /\ file.exists /\ ~file.ok) =>
                IF req[p].op = "add"
                THEN /\ Len(links'[p]) = 1
                     /\ links'[p][1].id = 1
                     /\ links'[p][1].title = strip(req[p].title)
                ELSE links'[p] = <<>>
         /\ (/\ pc[p] = "save_write" /\ pc'[p] = "idle"
             /\ clean[p] /\ loaded[p] = <<>>
             /\ outcome'[p] # 500) =>
                /\ file' = Document(links[p])
                /\ ReadLinks(file') = links[p]
                /\ Len(links[p]) = IF req[p].op = "add" THEN 1 ELSE 0
       ]_vars

\* the server found a file that does not parse (it never seeded one), an add
\* completed and the file holds its link alone, with id 1
C18_Witness ==
    /\ DEFAULT_LINKS = InitialDefaults
    /\ Len(adds) = 1 /\ dels = <<>>
    /\ adds[1].base = <<>> /\ adds[1].intact
    /\ file = Document(<<adds[1].link>>)
    /\ adds[1].link.id = 1

\* the requests that only read: the listing, the redirect, the admin page
\* and the listing as data
ReadOps == {"index", "redirect", "admin", "api"}

\* the file holds the three seed links, stamped, and nothing else
Seeded(f) ==
    /\ f.ok
    /\ Len(f.links) = 3
    /\ \A k \in 1..3 :
          /\ f.links[k].created # <<>>
          /\ f.links[k] =
                [InitialDefaults[k] EXCEPT !.created = f.links[k].created]

\* C19: a request that only reads and whose writes do not fail changes the
\* file only by creating it when there is none and by writing the seed
\* links, and nothing else, to the file it has created
C19_ReadsFrame ==
    [][\A p \in Workers :
         (/\ req[p].op \in ReadOps /\ pc'[p] # pc[p] /\ file' # file
          /\ outcome'[p] # 500) =>
             \/ ~file.exists /\ file' = Garbage(0)
             \/ /\ pc[p] = "seed_write"
                /\ file = Garbage(0)
                /\ Seeded(file')]_vars

====
